---- MODULE Spec2Model ----
(***************************************************************************)
(* Model of src/ExtractV3.js: the recursive prefix crawler that drives a   *)
(* p-queue (concurrency + intervalCap) with AIMD concurrency control,      *)
(* retry/backoff in queryAPI and periodic snapshots.                       *)
(*                                                                         *)
(* The model is a scaled instance of the script: the alphabet has two      *)
(* tokens (one letter and the space token "%20"), the page cap, the        *)
(* concurrency bounds, the backlog thresholds, the interval cap, the       *)
(* retry limit and the snapshot increment are small numbers standing for   *)
(* the script's 15, 5/26/80, 20/100, 80, 5 and 500.  Time is abstract:     *)
(* a timer (retry delay, tail delay, p-queue interval, backlog monitor)    *)
(* fires at any moment after it was armed.                                 *)
(*                                                                         *)
(* Every handler of the event loop is one action: the synchronous code it  *)
(* runs, including the jobs p-queue starts synchronously from add(), from  *)
(* the concurrency setter and from _next(), is part of the action.         *)
(***************************************************************************)
EXTENDS Integers, Sequences, FiniteSets, TLC

\* ------------------------------------------------------------------------
\* Configuration (src/ExtractV3.js:7-27, 39-43), scaled
\* ------------------------------------------------------------------------
BASE_DELAY_MS == 500
JITTER_MS == 200
RATE_LIMIT_COOLDOWN_MS == 1000
MAX_RESULTS_PER_QUERY == 2
\* source: 15
MIN_CONCURRENCY == 1
\* source: 5
MAX_CONCURRENCY == 3
\* source: 80
INITIAL_CONCURRENCY == 2
\* source: 26
CONCURRENCY_ADJUSTMENT_UP == 1
DOWN_FACTOR_NUM == 9
DOWN_FACTOR_DEN == 10
\* CONCURRENCY_ADJUSTMENT_DOWN_FACTOR = 0.9 = 9/10
BACKLOG_HIGH_THRESHOLD == 3
\* source: 100
BACKLOG_LOW_THRESHOLD == 2
\* source: 20
INTERVAL_CAP == 3
\* source: intervalCap 80
RETRY_LIMIT == 2
\* source: attempt <= 5
SAVE_INCREMENT == 2
\* source: 500
MaxFaults == 3
\* how many 429 / transient-error responses the server gives in one run
RANDOM_DEN == 1000
\* Math.random() is sampled as r / RANDOM_DEN, r in RandomSamples
MaxRuns == 2
\* faulty responses the server has left in the runs checked for termination
FairFaults == 1
\* how many times the script is run (restart specification)

\* A string is a sequence of one-character strings.
\* VALID_CHARACTERS: the letter a and the space token '%20' (three characters).
VALID_CHARACTERS == << <<"a">>, <<"%", "2", "0">> >>

\* The hidden dataset of the remote endpoint: names over the letter and the space.
DATASET ==
  { <<"a">>, <<"a", "a">>, <<"a", " ", "a">> }

\* The values of Math.random() explored: the least and the greatest.
RandomSamples == {0, RANDOM_DEN - 1}

Max(a, b) == IF a >= b THEN a ELSE b
Min(a, b) == IF a <= b THEN a ELSE b

\* ------------------------------------------------------------------------
\* The request: encodeURIComponent(prefix) on the client, percent-decoding and
\* prefix matching on the server
\* ------------------------------------------------------------------------
EncodeChar(c) ==
  IF c = " " THEN <<"%", "2", "0">>
  ELSE IF c = "%" THEN <<"%", "2", "5">>
  ELSE <<c>>

RECURSIVE encodeURIComponent(_)
encodeURIComponent(s) ==
  IF s = <<>> THEN <<>> ELSE EncodeChar(Head(s)) \o encodeURIComponent(Tail(s))

HexChar(h, l) ==
  IF <<h, l>> = <<"2", "0">> THEN " "
  ELSE IF <<h, l>> = <<"2", "5">> THEN "%"
  ELSE "?"

RECURSIVE ServerDecode(_)
ServerDecode(s) ==
  IF s = <<>> THEN <<>>
  ELSE IF Head(s) = "%" /\ Len(s) >= 3
    THEN <<HexChar(s[2], s[3])>> \o ServerDecode(SubSeq(s, 4, Len(s)))
    ELSE <<Head(s)>> \o ServerDecode(Tail(s))

StartsWith(name, q) ==
  Len(q) <= Len(name) /\ SubSeq(name, 1, Len(q)) = q

\* The names the server matches for the query string it receives.
Matches(prefix) ==
  LET q == ServerDecode(encodeURIComponent(prefix))
  IN  {n \in DATASET : StartsWith(n, q)}

\* The possible 2xx bodies: every match when fewer than the page cap, some
\* cap-sized subset of the matches otherwise.
Answers(prefix) ==
  LET m == Matches(prefix)
  IN  IF Cardinality(m) < MAX_RESULTS_PER_QUERY
      THEN {m}
      ELSE {r \in SUBSET m : Cardinality(r) = MAX_RESULTS_PER_QUERY}

\* ------------------------------------------------------------------------
\* State
\* ------------------------------------------------------------------------
VARIABLES
  queue,               \* p-queue: the jobs waiting, as the prefixes they will process (FIFO)
  pendingCount,        \* p-queue: jobs running (queue.pending)
  intervalCount,       \* p-queue: jobs started in the current interval
  queueConcurrency,    \* p-queue: queue.concurrency
  currentConcurrency,  \* let currentConcurrency
  visitedPrefixes,     \* const visitedPrefixes
  discoveredNames,     \* const discoveredNames
  totalRequests,       \* let totalRequests
  lastSavedCount,      \* let lastSavedCount
  tasks,               \* each processPrefix call past its visited check: where it is suspended
  snapshots,           \* the contents written to PROGRESS_FILE, in order
  enqueued,            \* history: the prefixes given to queue.add, in order
  windowRequests,      \* history: HTTP requests issued since the last interval boundary
  faults,              \* environment: 429 / error responses given so far
  main,                \* extractAllNames: "start", "waiting" (at queue.onIdle) or "done"
  run                  \* history: which run of the script this is (1 = the first)

vars ==
  << queue, pendingCount, intervalCount, queueConcurrency, currentConcurrency,
     visitedPrefixes, discoveredNames, totalRequests, lastSavedCount, tasks,
     snapshots, enqueued, windowRequests, faults, main, run >>

\* The part of the state the synchronous code of a handler reads and writes.
State ==
  [ queue |-> queue, pendingCount |-> pendingCount, intervalCount |-> intervalCount,
    queueConcurrency |-> queueConcurrency, currentConcurrency |-> currentConcurrency,
    visitedPrefixes |-> visitedPrefixes, discoveredNames |-> discoveredNames,
    totalRequests |-> totalRequests, lastSavedCount |-> lastSavedCount,
    tasks |-> tasks, snapshots |-> snapshots, enqueued |-> enqueued,
    windowRequests |-> windowRequests ]

Apply(s) ==
  /\ queue' = s.queue
  /\ pendingCount' = s.pendingCount
  /\ intervalCount' = s.intervalCount
  /\ queueConcurrency' = s.queueConcurrency
  /\ currentConcurrency' = s.currentConcurrency
  /\ visitedPrefixes' = s.visitedPrefixes
  /\ discoveredNames' = s.discoveredNames
  /\ totalRequests' = s.totalRequests
  /\ lastSavedCount' = s.lastSavedCount
  /\ tasks' = s.tasks
  /\ snapshots' = s.snapshots
  /\ enqueued' = s.enqueued
  /\ windowRequests' = s.windowRequests

\* A processPrefix call that has just passed its visited check.
NewTask ==
  [ pc |-> "new",         \* "http", "cooldown", "backoff", "tail", "done"
    attempt |-> 0,        \* the attempt parameter of the current queryAPI call
    requests |-> 0,       \* queryAPI calls made for the prefix
    starts |-> 0,         \* queryAPI calls made with attempt = 1
    rateLimited |-> 0,    \* 429 responses received
    errors |-> 0,         \* non-429 errors received
    recorded |-> 0,       \* times the results were merged into discoveredNames
    abandoned |-> FALSE,  \* queryAPI gave up ("Failed to fetch prefix")
    timeout |-> 0,        \* ms of the retry timer armed by delay(), 0 when none is armed
    results |-> {} ]      \* what queryAPI finally returned

Init ==
  /\ queue = <<>>
  /\ pendingCount = 0
  /\ intervalCount = 0
  /\ queueConcurrency = INITIAL_CONCURRENCY
  /\ currentConcurrency = INITIAL_CONCURRENCY
  /\ visitedPrefixes = {}
  /\ discoveredNames = {}
  /\ totalRequests = 0
  /\ lastSavedCount = 0
  /\ tasks = << >>
  /\ snapshots = << >>
  /\ enqueued = << >>
  /\ windowRequests = 0
  /\ faults = 0
  /\ main = "start"
  /\ run = 1

\* ------------------------------------------------------------------------
\* queryAPI up to its await of the HTTP response
\* ------------------------------------------------------------------------
\* Faulty variant: only the first attempt of a prefix is counted.
queryAPICountFirst(s, prefix, attempt) ==
  LET t == s.tasks[prefix]
  IN  [s EXCEPT !.totalRequests = IF attempt = 1 THEN @ + 1 ELSE @,
                !.windowRequests = @ + 1,
                !.tasks = [@ EXCEPT ![prefix] =
                   [t EXCEPT !.pc = "http",
                             !.attempt = attempt,
                             !.timeout = 0,
                             !.requests = @ + 1,
                             !.starts = IF attempt = 1 THEN @ + 1 ELSE @]]]

queryAPI(s, prefix, attempt) ==
  LET t == s.tasks[prefix]
  IN  [s EXCEPT !.totalRequests = @ + 1,
                !.windowRequests = @ + 1,
                !.tasks = [@ EXCEPT ![prefix] =
                   [t EXCEPT !.pc = "http",
                             !.attempt = attempt,
                             !.timeout = 0,
                             !.requests = @ + 1,
                             !.starts = IF attempt = 1 THEN @ + 1 ELSE @]]]

\* processPrefix up to its first await: the visited check, the insertion and the
\* first queryAPI call run without a suspension point.
processPrefixBegin(s, prefix) ==
  IF prefix \in s.visitedPrefixes
  THEN s
  ELSE queryAPI([s EXCEPT !.visitedPrefixes = @ \cup {prefix},
                          !.tasks = (prefix :> NewTask) @@ @],
                prefix, 1)

\* ------------------------------------------------------------------------
\* p-queue (concurrency, intervalCap, interval): the dispatcher
\* ------------------------------------------------------------------------
\* run(): the job at the head leaves the queue, takes a concurrency slot and an
\* interval token, and its function is called synchronously.  A job whose prefix is
\* already visited returns at once and gives its slot back.
RunJob(s) ==
  LET prefix == Head(s.queue)
      s1 == [s EXCEPT !.queue = Tail(@),
                      !.pendingCount = @ + 1,
                      !.intervalCount = @ + 1]
  IN  IF prefix \in s.visitedPrefixes
      THEN [s1 EXCEPT !.pendingCount = @ - 1]
      ELSE processPrefixBegin(s1, prefix)

CanStart(s) ==
  /\ Len(s.queue) > 0
  /\ s.intervalCount < INTERVAL_CAP
  /\ s.pendingCount < s.queueConcurrency

\* _tryToStartAnother
TryToStartAnother(s) == IF CanStart(s) THEN RunJob(s) ELSE s

\* _processQueue: while (_tryToStartAnother()) {}
RECURSIVE ProcessQueue(_)
ProcessQueue(s) == IF CanStart(s) THEN ProcessQueue(RunJob(s)) ELSE s

\* queue.add(fn)
QueueAdd(s, prefix) ==
  TryToStartAnother([s EXCEPT !.queue = Append(@, prefix),
                              !.enqueued = Append(@, prefix)])

\* set concurrency(n)
SetConcurrency(s, n) == ProcessQueue([s EXCEPT !.queueConcurrency = n])

\* Faulty variant: the settled job keeps its slot.
QueueNextNoRelease(s) == TryToStartAnother(s)

\* _next(): a job has settled
QueueNext(s) == TryToStartAnother([s EXCEPT !.pendingCount = @ - 1])

\* ------------------------------------------------------------------------
\* Concurrency controller
\* ------------------------------------------------------------------------
\* Faulty variant: the upper clamp is missing.
ClampNoMax(newConcurrency) == Max(MIN_CONCURRENCY, newConcurrency)

Clamp(newConcurrency) ==
  Max(MIN_CONCURRENCY, Min(MAX_CONCURRENCY, newConcurrency))

\* Faulty variant: the queue is not told.
adjustConcurrencyNoQueue(s, newConcurrency) ==
  [s EXCEPT !.currentConcurrency = Clamp(newConcurrency)]

adjustConcurrency(s, newConcurrency) ==
  LET c == Clamp(newConcurrency)
  IN  SetConcurrency([s EXCEPT !.currentConcurrency = c], c)

\* Faulty variant: the concurrency is halved.
DecreasedHalf(c) == c \div 2

\* Math.floor(currentConcurrency * CONCURRENCY_ADJUSTMENT_DOWN_FACTOR)
Decreased(c) == (c * DOWN_FACTOR_NUM) \div DOWN_FACTOR_DEN

Increased(c) == c + CONCURRENCY_ADJUSTMENT_UP

\* ------------------------------------------------------------------------
\* Snapshots
\* ------------------------------------------------------------------------
saveProgress(s) ==
  [s EXCEPT !.snapshots = Append(@,
     [ totalRequests |-> s.totalRequests,
       totalNames |-> Cardinality(s.discoveredNames),
       names |-> s.discoveredNames ])]

\* Faulty variant: the growth must exceed the increment.
maybeSaveProgressStrict(s) ==
  IF Cardinality(s.discoveredNames) > s.lastSavedCount + SAVE_INCREMENT
  THEN saveProgress([s EXCEPT !.lastSavedCount = Cardinality(s.discoveredNames)])
  ELSE s

maybeSaveProgress(s) ==
  IF Cardinality(s.discoveredNames) >= s.lastSavedCount + SAVE_INCREMENT
  THEN saveProgress([s EXCEPT !.lastSavedCount = Cardinality(s.discoveredNames)])
  ELSE s

\* ------------------------------------------------------------------------
\* processPrefix after queryAPI has returned
\* ------------------------------------------------------------------------
\* Faulty variant: any non-empty page is expanded.
ShouldExpandAny(results) == Cardinality(results) > 0

ShouldExpand(results) == Cardinality(results) = MAX_RESULTS_PER_QUERY

\* Faulty variant: the alphabet is walked backwards.
ChildReversed(prefix, i) ==
  prefix \o VALID_CHARACTERS[Len(VALID_CHARACTERS) + 1 - i]

\* const newPrefix = prefix + char, for the i-th character
Child(prefix, i) == prefix \o VALID_CHARACTERS[i]

\* for (const char of VALID_CHARACTERS) ... from the i-th character on
RECURSIVE Expand(_, _, _)
Expand(s, prefix, i) ==
  IF i > Len(VALID_CHARACTERS) THEN s
  ELSE IF Child(prefix, i) \notin s.visitedPrefixes
    THEN Expand(QueueAdd(s, Child(prefix, i)), prefix, i + 1)
    ELSE Expand(s, prefix, i + 1)

\* Faulty variant: the results replace the set instead of being added to it.
RecordResultsOverwrite(names, results) == results

RecordResults(names, results) == names \cup results

processPrefixResume(s, prefix, results) ==
  LET s1 == [s EXCEPT !.discoveredNames = RecordResults(@, results),
                      !.tasks = [@ EXCEPT ![prefix] =
                         [@ EXCEPT !.results = results, !.recorded = @ + 1]]]
      s2 == maybeSaveProgress(s1)
      s3 == IF ShouldExpand(results) THEN Expand(s2, prefix, 1) ELSE s2
  IN  [s3 EXCEPT !.tasks = [@ EXCEPT ![prefix] = [@ EXCEPT !.pc = "tail"]]]

\* ------------------------------------------------------------------------
\* Handlers of the event loop
\* ------------------------------------------------------------------------
SetTask(s, prefix, t) == [s EXCEPT !.tasks = [@ EXCEPT ![prefix] = t]]

\* Faulty variant: the retry forgets its attempt number.
NextAttemptReset(attempt) == 1

\* return queryAPI(prefix, attempt + 1)
NextAttempt(attempt) == attempt + 1

\* Faulty variant: one retry too few.
CanRetryOffByOne(attempt) == attempt < RETRY_LIMIT

\* else if (attempt <= 5)
CanRetry(attempt) == attempt <= RETRY_LIMIT

\* Faulty variant: the exponent starts at 0.
backoffDelayFromZero(attempt) == BASE_DELAY_MS * 2^(attempt - 1)

\* const backoffDelay = BASE_DELAY_MS * Math.pow(2, attempt)
backoffDelay(attempt) == BASE_DELAY_MS * 2^attempt

\* delay(ms): the timeout given to setTimeout, ms + Math.floor(Math.random() * JITTER_MS)
delay(ms, r) == ms + (r * JITTER_MS) \div RANDOM_DEN

InFlight == {p \in visitedPrefixes : tasks[p].pc = "http"}

\* extractAllNames up to its await of queue.onIdle(): the monitor is started and
\* one job per alphabet character is added, in order.
RECURSIVE Seed(_, _)
Seed(s, i) ==
  IF i > Len(VALID_CHARACTERS) THEN s
  ELSE Seed(QueueAdd(s, VALID_CHARACTERS[i]), i + 1)

ExtractStart ==
  /\ main = "start"
  /\ Apply(Seed(State, 1))
  /\ main' = "waiting"
  /\ UNCHANGED << faults, run >>

\* The response is 2xx: adjustConcurrency(+1), queryAPI returns the results, and
\* processPrefix records them, saves if due, expands if the page is full and
\* starts its tail delay.
Success(prefix) ==
  /\ prefix \in InFlight
  /\ \E results \in Answers(prefix) :
        Apply(processPrefixResume(
                adjustConcurrency(State, Increased(currentConcurrency)),
                prefix, results))
  /\ UNCHANGED << faults, main, run >>

\* Faulty variant: a 429 is retried only within the transient-error budget.
RateLimitedCounted(prefix) ==
  /\ prefix \in InFlight
  /\ faults < MaxFaults
  /\ LET s1 == adjustConcurrency(State, Decreased(currentConcurrency))
         t == [s1.tasks[prefix] EXCEPT !.rateLimited = @ + 1]
     IN  IF CanRetry(t.attempt)
         THEN \E r \in RandomSamples :
                 Apply(SetTask(s1, prefix,
                         [t EXCEPT !.pc = "cooldown",
                                   !.timeout = delay(RATE_LIMIT_COOLDOWN_MS, r)]))
         ELSE Apply(processPrefixResume(
                      SetTask(s1, prefix, [t EXCEPT !.abandoned = TRUE]),
                      prefix, {}))
  /\ faults' = faults + 1
  /\ UNCHANGED << main, run >>

\* The response is 429: adjustConcurrency(floor(0.9 c)), then the cooldown delay.
RateLimited(prefix) ==
  /\ prefix \in InFlight
  /\ faults < MaxFaults
  /\ LET s1 == adjustConcurrency(State, Decreased(currentConcurrency))
     IN  \E r \in RandomSamples :
            Apply(SetTask(s1, prefix,
                    [s1.tasks[prefix] EXCEPT !.pc = "cooldown",
                                             !.rateLimited = @ + 1,
                                             !.timeout = delay(RATE_LIMIT_COOLDOWN_MS, r)]))
  /\ faults' = faults + 1
  /\ UNCHANGED << main, run >>

\* The request fails otherwise (timeout, connection error, other status): backoff
\* and retry while attempt <= 5, else queryAPI returns [] and processPrefix goes on.
TransientError(prefix) ==
  /\ prefix \in InFlight
  /\ faults < MaxFaults
  /\ LET t == [tasks[prefix] EXCEPT !.errors = @ + 1]
     IN  IF CanRetry(t.attempt)
         THEN \E r \in RandomSamples :
                 Apply(SetTask(State, prefix,
                         [t EXCEPT !.pc = "backoff",
                                   !.timeout = delay(backoffDelay(t.attempt), r)]))
         ELSE Apply(processPrefixResume(
                      SetTask(State, prefix, [t EXCEPT !.abandoned = TRUE]),
                      prefix, {}))
  /\ faults' = faults + 1
  /\ UNCHANGED << main, run >>

\* The cooldown or backoff delay is over: queryAPI(prefix, attempt + 1).
RetryTimer(prefix) ==
  /\ prefix \in visitedPrefixes
  /\ tasks[prefix].pc \in {"cooldown", "backoff"}
  /\ Apply(queryAPI(State, prefix, NextAttempt(tasks[prefix].attempt)))
  /\ UNCHANGED << faults, main, run >>

\* The tail delay(BASE_DELAY_MS) is over (its timeout value is not kept): processPrefix returns, the job settles
\* and p-queue's _next() runs.
TaskEnd(prefix) ==
  /\ prefix \in visitedPrefixes
  /\ tasks[prefix].pc = "tail"
  /\ Apply(QueueNext(SetTask(State, prefix, [tasks[prefix] EXCEPT !.pc = "done"])))
  /\ UNCHANGED << faults, main, run >>

\* p-queue's interval timer: a new interval begins, the count restarts and the
\* queue is processed.
OnInterval ==
  /\ intervalCount > 0 \/ windowRequests > 0
  /\ Apply(ProcessQueue([State EXCEPT !.intervalCount = 0, !.windowRequests = 0]))
  /\ UNCHANGED << faults, main, run >>

\* Faulty variant: the thresholds are inclusive.
MonitorTickInclusive ==
  /\ main # "start"
  /\ LET backlog == pendingCount + Len(queue)
     IN  IF backlog >= BACKLOG_HIGH_THRESHOLD
         THEN Apply(adjustConcurrency(State, Decreased(currentConcurrency)))
         ELSE IF backlog <= BACKLOG_LOW_THRESHOLD /\ currentConcurrency < MAX_CONCURRENCY
           THEN Apply(adjustConcurrency(State, Increased(currentConcurrency)))
           ELSE Apply(State)
  /\ UNCHANGED << faults, main, run >>

\* The setInterval callback of monitorBacklog.
MonitorTick ==
  /\ main # "start"
  /\ LET backlog == pendingCount + Len(queue)
     IN  IF backlog > BACKLOG_HIGH_THRESHOLD
         THEN Apply(adjustConcurrency(State, Decreased(currentConcurrency)))
         ELSE IF backlog < BACKLOG_LOW_THRESHOLD /\ currentConcurrency < MAX_CONCURRENCY
           THEN Apply(adjustConcurrency(State, Increased(currentConcurrency)))
           ELSE Apply(State)
  /\ UNCHANGED << faults, main, run >>

\* Faulty variant: the run waits for the queue to be empty, not idle.
CompleteOnEmpty ==
  /\ main = "waiting"
  /\ Len(queue) = 0
  /\ Apply(saveProgress(saveProgress(State)))
  /\ main' = "done"
  /\ UNCHANGED << faults, run >>

\* queue.onIdle() resolves: the final saveProgress, then saveToFile(PROGRESS_FILE,
\* results) writes the same totals once more.
Complete ==
  /\ main = "waiting"
  /\ pendingCount = 0
  /\ Len(queue) = 0
  /\ Apply(saveProgress(saveProgress(State)))
  /\ main' = "done"
  /\ UNCHANGED << faults, run >>

Next ==
  \/ ExtractStart
  \/ \E prefix \in visitedPrefixes : Success(prefix)
  \/ \E prefix \in visitedPrefixes : RateLimited(prefix)
  \/ \E prefix \in visitedPrefixes : TransientError(prefix)
  \/ \E prefix \in visitedPrefixes : RetryTimer(prefix)
  \/ \E prefix \in visitedPrefixes : TaskEnd(prefix)
  \/ OnInterval
  \/ MonitorTick
  \/ Complete

Spec == Init /\ [][Next]_vars

\* The event loop runs every callback that is ready: armed timers fire, a request
\* gets its response (a 2xx once the server has used up its faults), and
\* extractAllNames resumes when the queue is idle.
Fairness ==
  /\ WF_vars(ExtractStart)
  /\ WF_vars(\E prefix \in visitedPrefixes : Success(prefix))
  /\ WF_vars(\E prefix \in visitedPrefixes : RetryTimer(prefix))
  /\ WF_vars(\E prefix \in visitedPrefixes : TaskEnd(prefix))
  /\ WF_vars(OnInterval)
  /\ WF_vars(Complete)

\* The run against a server that has FairFaults 429 or error responses left.
InitFair ==
  /\ queue = <<>>
  /\ pendingCount = 0
  /\ intervalCount = 0
  /\ queueConcurrency = INITIAL_CONCURRENCY
  /\ currentConcurrency = INITIAL_CONCURRENCY
  /\ visitedPrefixes = {}
  /\ discoveredNames = {}
  /\ totalRequests = 0
  /\ lastSavedCount = 0
  /\ tasks = << >>
  /\ snapshots = << >>
  /\ enqueued = << >>
  /\ windowRequests = 0
  /\ faults = MaxFaults - FairFaults
  /\ main = "start"
  /\ run = 1

SpecFair == InitFair /\ [][Next]_vars /\ Fairness

\* ------------------------------------------------------------------------
\* Restart: the process is stopped abruptly and the script is run again
\* ------------------------------------------------------------------------
\* Every module-level variable is initialised anew (ExtractV3.js:19-43); of the
\* stopped run only PROGRESS_FILE remains, which the script never reads.  The
\* restart is explored for runs in which the server gives no 429 or error.
Restart ==
  /\ run < MaxRuns
  /\ snapshots # << >>
  /\ faults = 0
  /\ queue' = << >>
  /\ pendingCount' = 0
  /\ intervalCount' = 0
  /\ queueConcurrency' = INITIAL_CONCURRENCY
  /\ currentConcurrency' = INITIAL_CONCURRENCY
  /\ visitedPrefixes' = {}
  /\ discoveredNames' = {}
  /\ totalRequests' = 0
  /\ lastSavedCount' = 0
  /\ tasks' = << >>
  /\ snapshots' = << snapshots[Len(snapshots)] >>
  /\ enqueued' = << >>
  /\ windowRequests' = 0
  /\ faults' = MaxFaults
  /\ main' = "start"
  /\ run' = run + 1

NextRestart == Next \/ Restart

SpecRestart == Init /\ [][NextRestart]_vars

\* ------------------------------------------------------------------------
\* Properties
\* ------------------------------------------------------------------------
Range(seq) == {seq[i] : i \in DOMAIN seq}

Finished(p) == tasks[p].pc \in {"tail", "done"}

\* The children of prefix in alphabet order, without those in the set visited.
ExpectedChildren(prefix, visited) ==
  LET all == [i \in 1..Len(VALID_CHARACTERS) |-> prefix \o VALID_CHARACTERS[i]]
      Fresh(c) == c \notin visited
  IN  SelectSeq(all, Fresh)

RateLimitInvariant == windowRequests <= INTERVAL_CAP

\* C3 (429 responses do not count toward the transient-retry budget): a prefix
\* is abandoned only after the full budget of transient-error retries, that is
\* after RETRY_LIMIT + 1 transient errors, however many 429 responses it got.
RateLimitedNotCounted ==
  \A p \in visitedPrefixes :
     tasks[p].abandoned => tasks[p].errors = RETRY_LIMIT + 1

\* C4 (concurrency bound invariant): in every reachable state currentConcurrency
\* is an integer between MIN_CONCURRENCY and MAX_CONCURRENCY.
ConcurrencyBound ==
  currentConcurrency \in MIN_CONCURRENCY..MAX_CONCURRENCY

\* C4 witness: after a 429 response the controller sits at the lower bound, where
\* the multiplicative decrease would leave the range.
ConcurrencyBoundWitness ==
  /\ currentConcurrency = MIN_CONCURRENCY
  /\ Decreased(MIN_CONCURRENCY) < MIN_CONCURRENCY
  /\ \E p \in visitedPrefixes : tasks[p].pc = "cooldown"

\* C5 (completeness): when the run has completed and no prefix was abandoned,
\* discoveredNames contains every dataset item that starts with a character of
\* the alphabet.
StartsWithAlphabet(name) ==
  \E i \in 1..Len(VALID_CHARACTERS) :
     StartsWith(name, ServerDecode(VALID_CHARACTERS[i]))

Completeness ==
  (main = "done" /\ \A p \in visitedPrefixes : ~tasks[p].abandoned)
    => \A n \in DATASET : StartsWithAlphabet(n) => n \in discoveredNames

\* C6 (leaf pruning): if the final result for prefix P has a length different
\* from the page cap (an abandoned prefix's empty result included), no child of
\* P is ever enqueued or queried.
LeafPruning ==
  \A p \in visitedPrefixes :
     (tasks[p].recorded >= 1 /\ Cardinality(tasks[p].results) # MAX_RESULTS_PER_QUERY)
       => \A i \in 1..Len(VALID_CHARACTERS) :
             /\ p \o VALID_CHARACTERS[i] \notin Range(enqueued)
             /\ p \o VALID_CHARACTERS[i] \notin visitedPrefixes

\* C6 witness: the run is complete and some prefix got a non-empty page shorter
\* than the cap.
LeafPruningWitness ==
  /\ main = "done"
  /\ \E p \in visitedPrefixes :
        /\ tasks[p].recorded = 1
        /\ tasks[p].results # {}
        /\ Cardinality(tasks[p].results) < MAX_RESULTS_PER_QUERY

\* C7 (correct expansion): the step in which prefix P records a page of exactly
\* cap items adds to the queue exactly the children P + c that are not visited,
\* one task each, in alphabet order, and nothing else.
CorrectExpansion ==
  [][\A p \in visitedPrefixes :
        (/\ tasks[p].recorded = 0
         /\ tasks'[p].recorded = 1
         /\ Cardinality(tasks'[p].results) = MAX_RESULTS_PER_QUERY)
          => enqueued' = enqueued \o ExpectedChildren(p, visitedPrefixes)]_vars

\* C7 witness: a prefix has recorded a full page and all its children were
\* enqueued.
CorrectExpansionWitness ==
  \E p \in visitedPrefixes :
     /\ tasks[p].recorded = 1
     /\ Cardinality(tasks[p].results) = MAX_RESULTS_PER_QUERY
     /\ \A i \in 1..Len(VALID_CHARACTERS) : p \o VALID_CHARACTERS[i] \in Range(enqueued)

\* C8 (transient-error budget and abandonment): a prefix that only sees
\* transient errors is abandoned exactly at its (RETRY_LIMIT + 1)-th failed
\* attempt; an abandoned prefix has an empty result, stays visited, is not
\* queried again and has no child enqueued or queried.
Abandonment ==
  \A p \in visitedPrefixes :
     /\ tasks[p].rateLimited = 0
          => (tasks[p].abandoned <=> tasks[p].errors = RETRY_LIMIT + 1)
     /\ tasks[p].abandoned =>
          /\ Finished(p)
          /\ tasks[p].results = {}
          /\ tasks[p].requests = tasks[p].errors + tasks[p].rateLimited
          /\ \A i \in 1..Len(VALID_CHARACTERS) :
                /\ p \o VALID_CHARACTERS[i] \notin Range(enqueued)
                /\ p \o VALID_CHARACTERS[i] \notin visitedPrefixes

\* C8 witness: the run is complete with a prefix abandoned after transient
\* errors only.
AbandonmentWitness ==
  /\ main = "done"
  /\ \E p \in visitedPrefixes :
        /\ tasks[p].abandoned
        /\ tasks[p].rateLimited = 0
        /\ tasks[p].errors = RETRY_LIMIT + 1

\* C9 (snapshot monotonicity): of two snapshots of a run the earlier has a
\* subset of the later's names and at most its totalRequests, and every
\* snapshot's totalNames is the number of its names.
SnapshotMonotonicity ==
  /\ \A i, j \in DOMAIN snapshots :
        i < j => /\ snapshots[i].names \subseteq snapshots[j].names
                 /\ snapshots[i].totalRequests <= snapshots[j].totalRequests
  /\ \A i \in DOMAIN snapshots :
        snapshots[i].totalNames = Cardinality(snapshots[i].names)

\* C9 witness: a periodic snapshot followed by a final one with more names and
\* more requests.
SnapshotMonotonicityWitness ==
  /\ main = "done"
  /\ Len(snapshots) >= 3
  /\ snapshots[1].names # snapshots[Len(snapshots)].names
  /\ snapshots[1].totalRequests < snapshots[Len(snapshots)].totalRequests

\* C10 (429 responses are retried without limit and recorded once): a prefix
\* that got n 429 responses and no other error is never abandoned, is retried
\* once per 429 after the cooldown, and once it succeeds its result is recorded
\* exactly once.
RateLimitedRetried ==
  \A p \in visitedPrefixes :
     tasks[p].errors = 0 =>
        /\ ~tasks[p].abandoned
        /\ tasks[p].pc = "cooldown" => tasks[p].requests = tasks[p].rateLimited
        /\ tasks[p].pc = "http" => tasks[p].requests = tasks[p].rateLimited + 1
        /\ Finished(p) =>
              /\ tasks[p].requests = tasks[p].rateLimited + 1
              /\ tasks[p].recorded = 1
              /\ tasks[p].results \subseteq discoveredNames

\* C10 witness: a prefix finished with a non-empty result after several 429
\* responses and no other error.
RateLimitedRetriedWitness ==
  \E p \in visitedPrefixes :
     /\ tasks[p].pc = "done"
     /\ tasks[p].errors = 0
     /\ tasks[p].rateLimited = MaxFaults
     /\ tasks[p].results # {}

\* C11 (completion only at quiescence): when the final snapshot has been
\* written no task is queued, running or waiting in a retry or cooldown delay,
\* and from then on no request is issued and discoveredNames, visitedPrefixes
\* and totalRequests do not change.
QuiescentCompletion ==
  /\ [](main = "done" =>
          /\ queue = << >>
          /\ pendingCount = 0
          /\ \A p \in visitedPrefixes : tasks[p].pc = "done")
  /\ [][main = "done" =>
          UNCHANGED << totalRequests, discoveredNames, visitedPrefixes >>]_vars

\* C11 witness: the run has completed after a prefix had to wait in a cooldown.
QuiescentCompletionWitness ==
  /\ main = "done"
  /\ \E p \in visitedPrefixes : tasks[p].rateLimited > 0

\* C12 (snapshot trigger): after every record-and-check step discoveredNames
\* has fewer than lastSavedCount + SAVE_INCREMENT names, a periodic snapshot
\* holds lastSavedCount names, and at completion a snapshot of the final totals
\* is written whatever the growth.
SnapshotTrigger ==
  /\ Cardinality(discoveredNames) < lastSavedCount + SAVE_INCREMENT
  /\ lastSavedCount > 0 =>
        \E i \in DOMAIN snapshots : snapshots[i].totalNames = lastSavedCount
  /\ main = "done" =>
        /\ Len(snapshots) >= 1
        /\ snapshots[Len(snapshots)].names = discoveredNames
        /\ snapshots[Len(snapshots)].totalRequests = totalRequests

\* C12 witness: a periodic snapshot was written, then fewer than SAVE_INCREMENT
\* names were added and the run completed.
SnapshotTriggerWitness ==
  /\ main = "done"
  /\ lastSavedCount >= SAVE_INCREMENT
  /\ Cardinality(discoveredNames) > lastSavedCount

\* C13 (request accounting): totalRequests is the number of HTTP requests
\* issued so far: one per response received (429, error or 2xx) plus the
\* requests in flight, so a finished prefix with r retries counts r + 1.
Issued(p) ==
  tasks[p].rateLimited + tasks[p].errors
    + (IF tasks[p].pc = "http" THEN 1 ELSE 0)
    + (IF Finished(p) /\ ~tasks[p].abandoned THEN 1 ELSE 0)

RECURSIVE SumIssued(_)
SumIssued(S) ==
  IF S = {} THEN 0
  ELSE LET p == CHOOSE x \in S : TRUE IN Issued(p) + SumIssued(S \ {p})

RequestAccounting == totalRequests = SumIssued(visitedPrefixes)

\* C13 witness: the run has completed and some prefix needed two or more
\* retries.
RequestAccountingWitness ==
  /\ main = "done"
  /\ \E p \in visitedPrefixes : tasks[p].rateLimited + tasks[p].errors >= 2

\* C14 (recovery after an abrupt stop): a run started after a stop begins with
\* the names and the request count of the last snapshot, so no later snapshot
\* has fewer names than it.
RecoveryFromSnapshot ==
  run > 1 =>
     /\ snapshots[1].names \subseteq discoveredNames
     /\ snapshots[1].totalRequests <= totalRequests
     /\ \A i \in DOMAIN snapshots : snapshots[1].names \subseteq snapshots[i].names

\* C15 (backpressure on every request): no request, first attempt or retry, is
\* issued while more tasks hold a slot than currentConcurrency allows or while
\* the interval has no capacity left.
Backpressure ==
  [][totalRequests' > totalRequests =>
        /\ pendingCount' <= currentConcurrency'
        /\ windowRequests' <= INTERVAL_CAP]_vars

\* C16 (outcome-based AIMD step): a 2xx response sets currentConcurrency to
\* min(MAX, c + 1), a 429 response to max(MIN, floor(0.9 c)), and a transient
\* error leaves it unchanged.
OutcomeStep ==
  [][\A p \in visitedPrefixes :
        /\ tasks'[p].rateLimited > tasks[p].rateLimited =>
             currentConcurrency' =
               Max(MIN_CONCURRENCY,
                   (currentConcurrency * DOWN_FACTOR_NUM) \div DOWN_FACTOR_DEN)
        /\ tasks'[p].errors > tasks[p].errors =>
             currentConcurrency' = currentConcurrency
        /\ (tasks'[p].recorded > tasks[p].recorded /\ tasks'[p].errors = tasks[p].errors) =>
             currentConcurrency' =
               Min(MAX_CONCURRENCY, currentConcurrency + CONCURRENCY_ADJUSTMENT_UP)]_vars

\* C16 witness: a 429 response has lowered the concurrency from its greatest
\* value.
OutcomeStepWitness ==
  /\ currentConcurrency = (MAX_CONCURRENCY * DOWN_FACTOR_NUM) \div DOWN_FACTOR_DEN
  /\ currentConcurrency < INITIAL_CONCURRENCY \/ INITIAL_CONCURRENCY < MAX_CONCURRENCY
  /\ \E p \in visitedPrefixes : tasks[p].pc = "cooldown"

\* C17 (backlog-based step): a monitor tick with backlog = running + queued
\* sets currentConcurrency to max(MIN, floor(0.9 c)) if backlog > HIGH, to c + 1
\* if backlog < LOW and c < MAX, and leaves it unchanged otherwise.
BacklogStep ==
  [][MonitorTick =>
        currentConcurrency' =
          IF pendingCount + Len(queue) > BACKLOG_HIGH_THRESHOLD
          THEN Max(MIN_CONCURRENCY,
                   (currentConcurrency * DOWN_FACTOR_NUM) \div DOWN_FACTOR_DEN)
          ELSE IF /\ pendingCount + Len(queue) < BACKLOG_LOW_THRESHOLD
                  /\ currentConcurrency < MAX_CONCURRENCY
            THEN currentConcurrency + CONCURRENCY_ADJUSTMENT_UP
            ELSE currentConcurrency]_vars

\* C17 witness: with no 429 response so far the concurrency is below its
\* initial value, which only a tick at a high backlog brings about.
BacklogStepWitness ==
  /\ faults = 0
  /\ main = "waiting"
  /\ currentConcurrency < INITIAL_CONCURRENCY

\* C18 (single mutation point, no lost updates): queue.concurrency equals
\* currentConcurrency in every state, and every step takes currentConcurrency
\* from its latest value to that value, its increase or its decrease.
ConcurrencySynced ==
  /\ [](queueConcurrency = currentConcurrency)
  /\ [][currentConcurrency' \in
          { currentConcurrency,
            Min(MAX_CONCURRENCY, currentConcurrency + CONCURRENCY_ADJUSTMENT_UP),
            Max(MIN_CONCURRENCY,
                (currentConcurrency * DOWN_FACTOR_NUM) \div DOWN_FACTOR_DEN) }]_vars

\* C18 witness: the controller has moved both values to the upper bound.
ConcurrencySyncedWitness ==
  /\ currentConcurrency = MAX_CONCURRENCY
  /\ queueConcurrency = MAX_CONCURRENCY
  /\ MAX_CONCURRENCY # INITIAL_CONCURRENCY

\* C19 (backoff schedule): the timer armed after a transient failure of attempt
\* a is BASE_DELAY_MS * 2^a ms plus a jitter below JITTER_MS (1000, 2000, 4000,
\* 8000, 16000 ms at least for a = 1..5), the timer armed after a 429 is
\* RATE_LIMIT_COOLDOWN_MS plus such a jitter, and a retry is issued only by the
\* callback of an armed timer.
BackoffSchedule ==
  /\ \A a \in 1..5 : backoffDelay(a) = <<1000, 2000, 4000, 8000, 16000>>[a]
  /\ [](\A p \in visitedPrefixes :
          /\ tasks[p].pc = "backoff" =>
               /\ tasks[p].attempt \in 1..RETRY_LIMIT
               /\ tasks[p].timeout >= BASE_DELAY_MS * 2^(tasks[p].attempt)
               /\ tasks[p].timeout < BASE_DELAY_MS * 2^(tasks[p].attempt) + JITTER_MS
          /\ tasks[p].pc = "cooldown" =>
               /\ tasks[p].timeout >= RATE_LIMIT_COOLDOWN_MS
               /\ tasks[p].timeout < RATE_LIMIT_COOLDOWN_MS + JITTER_MS)
  /\ [][\A p \in visitedPrefixes :
          tasks'[p].requests > tasks[p].requests =>
             /\ tasks[p].pc \in {"backoff", "cooldown"}
             /\ tasks[p].timeout > 0]_vars

\* C19 witness: the backoff timer of the last allowed retry is armed with the
\* greatest jitter.
BackoffScheduleWitness ==
  \E p \in visitedPrefixes :
     /\ tasks[p].pc = "backoff"
     /\ tasks[p].attempt = RETRY_LIMIT
     /\ tasks[p].errors = RETRY_LIMIT
     /\ tasks[p].timeout > BASE_DELAY_MS * 2^RETRY_LIMIT

\* C20 (run termination): under fair scheduling and finitely many 429 and error
\* responses the run reaches the state where the final snapshot is written, the
\* queue is empty, no task is running and every enqueued prefix has been
\* recorded or abandoned.
Termination ==
  <>(/\ main = "done"
     /\ queue = << >>
     /\ pendingCount = 0
     /\ \A p \in Range(enqueued) :
           /\ p \in visitedPrefixes
           /\ tasks[p].pc = "done"
           /\ tasks[p].recorded = 1)

\* C20 witness: the run has completed although the server used all its faults.
TerminationWitness ==
  /\ main = "done"
  /\ faults = MaxFaults
  /\ \E p \in visitedPrefixes : tasks[p].rateLimited + tasks[p].errors > 0
  /\ Len(enqueued) > Len(VALID_CHARACTERS)

====
